---- MODULE Spec2Model ----
(***************************************************************************)
(* QuickListing: the usage quota and subscription state subsystem.         *)
(*                                                                         *)
(* Two deployable variants of the server are modelled:                     *)
(*   "guard"  - src/unnamed/part_000: usageGuard (Redis ledger keyed by    *)
(*              user and month, plan read from the Redis plan store) and   *)
(*              the Stripe webhook that writes the plan store;             *)
(*   "cookie" - src/unnamed/part_001 (first server): the middleware keyed  *)
(*              by a signed visitor cookie, plan taken from a header.      *)
(* One behaviour runs one variant (the variable deployed).  Redis is an    *)
(* external durable store, so a server may start on records written by an  *)
(* earlier run of the same code; Init draws such records.                  *)
(*                                                                         *)
(* Strings that the code compares or trims are sequences of characters     *)
(* (" " is white space); plan names and program counters are plain strings.*)
(* The updatedAt field of a usage record (Date.now()) is not modelled: no  *)
(* code path reads it.                                                     *)
(***************************************************************************)
EXTENDS Integers, Sequences, FiniteSets, TLC

\* ------------------------------------------------------------------ bounds
\* gate invocations that may be in flight at once
MaxInFlight == 2
\* gate invocations started in one behaviour of Spec
MaxReq == 1
\* webhook deliveries in one behaviour of SpecHook
MaxEvents == 2
\* gate invocations started in one behaviour of SpecHook
HookReq == 1
\* gate invocations started in one behaviour of SpecRace
RaceReq == 11
\* gate invocations started in one behaviour of SpecPlan
PlanReq == 2
\* gate invocations started in one behaviour of SpecLive
LiveReq == 2
\* gate invocations started in one behaviour of SpecKey
KeyReq == 2
\* months the clock of SpecKey runs past Epoch
KeySpan == 13
\* gate invocations started in one behaviour of SpecPay
PayReq == 1
\* gate invocations started in one behaviour of SpecGen
GenReq == 3
\* characters in an x-user-id header of SpecId
MaxLen == 3
\* gate invocations started in one behaviour of SpecAdmin
AdminReq == 2

\* ---------------------------------------------------------------- strings
\* String.prototype.trim on a sequence of characters
RECURSIVE TrimLeft(_)
TrimLeft(s) == IF s # <<>> /\ Head(s) = " " THEN TrimLeft(Tail(s)) ELSE s

RECURSIVE TrimRight(_)
TrimRight(s) ==
    IF s # <<>> /\ s[Len(s)] = " " THEN TrimRight(SubSeq(s, 1, Len(s) - 1)) ELSE s

Trim(s) == TrimRight(TrimLeft(s))

\* a request header: absent (undefined) or a string
NoHdr == [set |-> FALSE, val |-> <<>>]
Hdr(v) == [set |-> TRUE, val |-> v]

\* (h || ""): undefined and "" both give ""
OrEmpty(h) == IF h.set THEN h.val ELSE <<>>

\* ------------------------------------------------------------------- plans
CAPS == [free |-> 10, starter |-> 150, growth |-> 500]

Plans == DOMAIN CAPS

\* const limit = CAPS[plan] ?? CAPS.free
LimitOf(plan) == IF plan \in DOMAIN CAPS THEN CAPS[plan] ELSE CAPS.free

STARTER_PRICE == <<"price_starter">>
GROWTH_PRICE == <<"price_growth">>

\* ------------------------------------------------------------------- clock
\* An instant is a number of months since year 0; Epoch is November 2025.
Epoch == 2025 * 12 + 10

Instants == {Epoch, Epoch + 1}

\* `${now.getUTCFullYear()}-${String(now.getUTCMonth()+1).padStart(2,"0")}`
\* as the pair <<year, month 01..12>>
monthKey(t) == <<t \div 12, (t % 12) + 1>>

\* ------------------------------------------------------------------ inputs
U1 == <<"u1">>
IP1 == <<"ip1">>
UNKNOWN == <<"unknown">>
CUS1 == <<"cus_1">>
SECRET == <<"k">>

\* values of the x-admin-key header
AdminHeaders == {NoHdr, Hdr(<<>>), Hdr(SECRET), Hdr(<<"x">>), Hdr(<<" ", "k">>)}
\* values of the x-user-id header
UserHeaders == {NoHdr, Hdr(U1), Hdr(<<" ", "u1", " ">>), Hdr(<<" ">>)}
\* req.ip: an address, or undefined
Ips == {Hdr(IP1), NoHdr}
\* values of process.env.ADMIN_KEY: unset, or a secret
AdminKeys == {NoHdr, Hdr(SECRET)}

\* the Stripe customer of each user that can subscribe
CustomerOf == U1 :> CUS1

\* ------------------------------------------------------------------- state
VARIABLES
    deployed,   \* which server runs: "guard", "cookie" or "memory"
    adminKey,   \* process.env.ADMIN_KEY
    now,        \* the wall clock, an instant
    planStore,  \* Redis ql:plan:<id>        : key -> plan
    usage,      \* Redis ql:usage:<id>:<month> (guard), usage:<vid> (cookie),
                \* the Map usageByIp (memory)
    reqs,       \* the gate invocations in flight, by slot
    resp,       \* the invocation the last step finished, with its response
    pending,    \* plan writes the webhook issued and did not await
    wh,         \* the last webhook delivery and its response
    entitled,   \* history: the tier each user's verified events entitle them to
    once,       \* history: the plan store as one application of wh.event left it
    started,    \* gate invocations started so far
    rejected,   \* gate invocations answered 402 so far
    sessions,   \* the Stripe checkout sessions created so far
    stamp,      \* history: the clock reading and billing key of the last quota write
    gens        \* the /generate handler runs awaiting the model, by slot

vars == <<deployed, adminKey, now, planStore, usage, reqs, resp, pending, wh,
          entitled, once, started, rejected, sessions, stamp, gens>>

Slots == 1 .. MaxInFlight

EmptyMap == [k \in {} |-> 0]

Put(map, k, v) == (k :> v) @@ map

\* X-Remaining as <<kind, number>>: unset, a number, or the unlimited signal
Unset == <<"unset", 0>>
Num(n) == <<"num", n>>
Unlimited == <<"unlimited", 0>>

NoRec == [used |-> 0, plan |-> "free", month |-> <<0, 0>>]

Idle == [pc |-> "idle", gate |-> "none", adminEq |-> FALSE, userId |-> <<>>,
         plan |-> "free", limit |-> 0, month |-> <<0, 0>>, used |-> 0,
         rec |-> NoRec, failed |-> FALSE, status |-> 0, next |-> FALSE,
         xPlan |-> "unset", xRemaining |-> Unset, bodyUsed |-> 0,
         bodyLimit |-> 0, setCookie |-> FALSE, entitledAt |-> "none",
         at |-> 0, req |-> [uh |-> NoHdr, ip |-> NoHdr]]

\* history: no quota write yet / the write of invocation q, whose billing key
\* q.month was computed from the clock reading q.at
NoStamp == [set |-> FALSE, at |-> 0, key |-> <<0, 0>>]
StampOf(q) == [set |-> TRUE, at |-> q.at, key |-> q.month]

Free(r) == reqs[r].pc = "idle"

\* a new invocation takes the lowest free slot
Takes(r) == Free(r) /\ \A x \in Slots : x < r => ~Free(x)

\* history: the x-admin-key header equals the configured, non-empty secret
AdminEq(ah, key) == ah.set /\ key.set /\ key.val # <<>> /\ ah.val = key.val

\* ------------------------------------------- usageGuard (part_000, Redis)
\* the boss check comparing the header with the "" default, not the secret
GuardIsAdminDefault(ah, key) == ah.set /\ ah.val # <<>> /\ ah.val = <<>>

\* adminHeader && adminHeader === (process.env.ADMIN_KEY || "")
GuardIsAdmin(ah, key) == ah.set /\ ah.val # <<>> /\ ah.val = OrEmpty(key)

\* an identity that takes the x-user-id header as sent, without trim()
GuardUserIdRaw(uh, ip) ==
    IF OrEmpty(uh) # <<>> THEN OrEmpty(uh)
    ELSE IF ip.set /\ ip.val # <<>> THEN ip.val ELSE UNKNOWN

\* (req.headers["x-user-id"] || "").toString().trim(), else req.ip || "unknown"
GuardUserId(uh, ip) ==
    IF Trim(OrEmpty(uh)) # <<>> THEN Trim(OrEmpty(uh))
    ELSE IF ip.set /\ ip.val # <<>> THEN ip.val ELSE UNKNOWN

\* a usage key that leaves out the user: ql:usage:<month>
UsageKeyShared(userId, month) == <<<<>>, month>>

\* the key ql:usage:<userId>:<month>
UsageKey(userId, month) == <<userId, month>>

\* the identity lines of usageGuard on their own, applied to one request;
\* resp keeps the request (history) beside the identity
ResolveIdentity(uh, ip) ==
    /\ deployed = "guard"
    /\ resp' = [Idle EXCEPT !.pc = "resolved", !.gate = "guard",
                            !.req = [uh |-> uh, ip |-> ip],
                            !.userId = GuardUserId(uh, ip)]
    /\ UNCHANGED <<deployed, gens, sessions, stamp, adminKey, now, planStore, usage,
                   reqs, pending, wh, entitled, once, started, rejected>>

\* history: the tier the verified events so far entitle a user to
EntitledTo(u) == IF u \in DOMAIN entitled THEN entitled[u] ELSE "none"

\* The synchronous head of usageGuard: the boss override, else the identity,
\* up to the first await.
GuardStart(r, ah, uh, ip, budget) ==
    /\ deployed = "guard"
    /\ Takes(r)
    /\ started < budget
    /\ started' = started + 1
    /\ IF GuardIsAdmin(ah, adminKey)
       THEN /\ resp' = [Idle EXCEPT !.pc = "done", !.gate = "guard",
                                     !.adminEq = AdminEq(ah, adminKey),
                                     !.xPlan = "boss", !.xRemaining = Unlimited,
                                     !.next = TRUE]
            /\ reqs' = reqs
       ELSE /\ reqs' = [reqs EXCEPT ![r] =
                   [Idle EXCEPT !.pc = "getPlan", !.gate = "guard",
                                !.adminEq = AdminEq(ah, adminKey),
                                !.userId = GuardUserId(uh, ip),
                                !.entitledAt = EntitledTo(GuardUserId(uh, ip))]]
            /\ resp' = Idle
    /\ UNCHANGED <<deployed, gens, sessions, stamp, adminKey, now, planStore, usage, pending, wh,
                   entitled, once, rejected>>

\* a catch that answers 500 instead of calling next()
GuardFailClosed(q) == [q EXCEPT !.pc = "done", !.failed = TRUE, !.status = 500]

\* catch (err) { next(); }  -- fail-open, no header set
GuardFailOpen(q) == [q EXCEPT !.pc = "done", !.failed = TRUE, !.next = TRUE]

\* await redis.get(`ql:plan:${userId}`), then limit and monthKey()
GuardGetPlan(r, ok) ==
    /\ reqs[r].gate = "guard" /\ reqs[r].pc = "getPlan"
    /\ IF ok
       THEN LET plan == IF reqs[r].userId \in DOMAIN planStore
                        THEN planStore[reqs[r].userId] ELSE "free"
            IN /\ reqs' = [reqs EXCEPT ![r] =
                      [@ EXCEPT !.pc = "getUsage", !.plan = plan,
                                !.limit = LimitOf(plan), !.month = monthKey(now),
                                !.at = now]]
               /\ resp' = Idle
       ELSE /\ resp' = GuardFailOpen(reqs[r])
            /\ reqs' = [reqs EXCEPT ![r] = Idle]
    /\ UNCHANGED <<deployed, gens, sessions, stamp, adminKey, now, planStore, usage, pending, wh,
                   entitled, once, started, rejected>>

\* a 402 that lacks its return and falls through to next()
GuardRejectAndNext(q, used) ==
    [q EXCEPT !.pc = "done", !.used = used, !.status = 402, !.xPlan = q.plan,
              !.xRemaining = Num(0), !.bodyUsed = used, !.bodyLimit = q.limit,
              !.next = TRUE]

\* res.setHeader("X-Plan", plan); res.setHeader("X-Remaining", 0);
\* return res.status(402).json({ error, plan, limit, used })
GuardReject(q, used) ==
    [q EXCEPT !.pc = "done", !.used = used, !.status = 402, !.xPlan = q.plan,
              !.xRemaining = Num(0), !.bodyUsed = used, !.bodyLimit = q.limit]

\* await redis.get(key); used = record?.used ?? 0; the 402 when used >= limit
GuardGetUsage(r, ok) ==
    /\ reqs[r].gate = "guard" /\ reqs[r].pc = "getUsage"
    /\ IF ok
       THEN LET q == reqs[r]
                key == UsageKey(q.userId, q.month)
                used == IF key \in DOMAIN usage THEN usage[key].used ELSE 0
            IN IF used >= q.limit
               THEN /\ resp' = GuardReject(q, used)
                    /\ reqs' = [reqs EXCEPT ![r] = Idle]
                    /\ rejected' = rejected + 1
               ELSE /\ reqs' = [reqs EXCEPT ![r] =
                           [@ EXCEPT !.pc = "set", !.used = used + 1]]
                    /\ resp' = Idle
                    /\ rejected' = rejected
       ELSE /\ resp' = GuardFailOpen(reqs[r])
            /\ reqs' = [reqs EXCEPT ![r] = Idle]
            /\ rejected' = rejected
    /\ UNCHANGED <<deployed, gens, sessions, stamp, adminKey, now, planStore, usage, pending, wh,
                   entitled, once, started>>

\* the smaller of the two, in the place of Math.max
MinOf(a, b) == IF a <= b THEN a ELSE b

\* Math.max
Max(a, b) == IF a >= b THEN a ELSE b

\* await redis.set(key, {used, plan, month, updatedAt}); headers; next()
GuardSet(r, ok) ==
    /\ reqs[r].gate = "guard" /\ reqs[r].pc = "set"
    /\ IF ok
       THEN LET q == reqs[r]
            IN /\ usage' = Put(usage, UsageKey(q.userId, q.month),
                               [used |-> q.used, plan |-> q.plan, month |-> q.month])
               /\ resp' = [q EXCEPT !.pc = "done", !.xPlan = q.plan, !.next = TRUE,
                                     !.xRemaining = Num(Max(0, q.limit - q.used))]
       ELSE /\ resp' = GuardFailOpen(reqs[r])
            /\ usage' = usage
    /\ stamp' = IF ok THEN StampOf(reqs[r]) ELSE stamp
    /\ reqs' = [reqs EXCEPT ![r] = Idle]
    /\ UNCHANGED <<deployed, gens, sessions, adminKey, now, planStore, pending, wh,
                   entitled, once, started, rejected>>

\* ------------------------- the cookie-keyed middleware (part_001, Redis)
V1 == <<"v1">>
V2 == <<"v2">>
VisitorIds == {V1, V2}

\* values of the x-plan header
PlanHeaders == {NoHdr, Hdr(<<"free">>), Hdr(<<"starter">>), Hdr(<<" ", "GROWTH">>),
                Hdr(<<"pro">>)}

\* toLowerCase, one token at a time
LowerTok(c) == CASE c = "GROWTH" -> "growth"
                 [] c = "STARTER" -> "starter"
                 [] c = "FREE" -> "free"
                 [] OTHER -> c

ToLower(s) == [i \in 1 .. Len(s) |-> LowerTok(s[i])]

\* getPlan(req): the x-plan header, lower-cased and trimmed, if it names a plan
getPlan(ph) ==
    LET p == Trim(ToLower(IF ph.set /\ ph.val # <<>> THEN ph.val ELSE <<"free">>))
    IN IF Len(p) = 1 /\ p[1] \in Plans THEN p[1] ELSE "free"

\* a bypass that compares with (ADMIN_KEY || "") and skips the check that the
\* header is not empty
CookieIsAdminLoose(ah, key) == Trim(OrEmpty(ah)) = OrEmpty(key)

\* adminKeyHeader && adminKeyHeader === process.env.ADMIN_KEY
CookieIsAdmin(ah, key) ==
    Trim(OrEmpty(ah)) # <<>> /\ key.set /\ Trim(OrEmpty(ah)) = key.val

\* The synchronous head: the boss bypass, getVisitorId (fresh is the UUID drawn
\* when the request carries no valid cookie), getPlan, the month and the limit.
CookieStart(r, ah, cookie, ph, fresh, budget) ==
    /\ deployed = "cookie"
    /\ Takes(r)
    /\ started < budget
    /\ ~cookie.set => /\ fresh \notin DOMAIN usage
                       /\ \A x \in Slots : ~Free(x) => reqs[x].userId # fresh
    /\ started' = started + 1
    /\ IF CookieIsAdmin(ah, adminKey)
       THEN /\ resp' = [Idle EXCEPT !.pc = "done", !.gate = "cookie",
                                     !.adminEq = AdminEq(ah, adminKey),
                                     !.xPlan = "boss", !.xRemaining = Unlimited,
                                     !.next = TRUE]
            /\ reqs' = reqs
       ELSE /\ resp' = Idle
            /\ reqs' = [reqs EXCEPT ![r] =
                   [Idle EXCEPT !.pc = "get", !.gate = "cookie",
                                !.adminEq = AdminEq(ah, adminKey),
                                !.userId = IF cookie.set THEN cookie.val ELSE fresh,
                                !.setCookie = ~cookie.set,
                                !.plan = getPlan(ph),
                                !.month = monthKey(now), !.at = now,
                                !.limit = CAPS[getPlan(ph)]]]
    /\ UNCHANGED <<deployed, gens, sessions, stamp, adminKey, now, planStore, usage, pending, wh,
                   entitled, once, rejected>>

\* if (!rec || typeof rec !== "object") rec = { month, plan, used: 0 }
CookieFresh(month, plan) == [used |-> 0, plan |-> plan, month |-> month]

\* a rollover that moves the record to the new month and keeps its count
CookieRollKeep(rec, month) == [rec EXCEPT !.month = month]

\* if (rec.month !== month) { rec.month = month; rec.used = 0; }
CookieRoll(rec, month) ==
    IF rec.month # month THEN [rec EXCEPT !.month = month, !.used = 0] ELSE rec

\* rec.plan = plan; rec.used += 1;
CookieCount(rec, plan) == [rec EXCEPT !.plan = plan, !.used = @ + 1]

\* try { rec = await redis.get(key) } catch { rec = null }, then the counting
CookieGet(r, ok) ==
    /\ reqs[r].gate = "cookie" /\ reqs[r].pc = "get"
    /\ LET q == reqs[r]
           rec == IF ok /\ q.userId \in DOMAIN usage
                  THEN usage[q.userId] ELSE CookieFresh(q.month, q.plan)
       IN reqs' = [reqs EXCEPT ![r] =
              [@ EXCEPT !.pc = "set", !.failed = ~ok,
                        !.rec = CookieCount(CookieRoll(rec, q.month), q.plan)]]
    /\ resp' = Idle
    /\ UNCHANGED <<deployed, gens, sessions, stamp, adminKey, now, planStore, usage, pending, wh,
                   entitled, once, started, rejected>>

\* the response of the middleware once the write succeeded
CookieDecide(q) ==
    IF q.rec.used > q.limit
    THEN [q EXCEPT !.pc = "done", !.xPlan = q.plan, !.status = 402,
                   !.xRemaining = Num(Max(0, q.limit - q.rec.used)),
                   !.bodyUsed = q.rec.used, !.bodyLimit = q.limit, !.used = q.rec.used]
    ELSE [q EXCEPT !.pc = "done", !.xPlan = q.plan, !.next = TRUE,
                   !.xRemaining = Num(Max(0, q.limit - q.rec.used)),
                   !.used = q.rec.used]

\* the catch of the write: headers, then next()
CookieWriteFailed(q) ==
    [q EXCEPT !.pc = "done", !.failed = TRUE, !.xPlan = q.plan,
              !.xRemaining = Num(q.limit), !.next = TRUE]

\* await redis.set(key, rec, { ex }), then the headers and the 402 or next()
CookieSet(r, ok) ==
    /\ reqs[r].gate = "cookie" /\ reqs[r].pc = "set"
    /\ LET q == reqs[r]
           out == IF ok THEN CookieDecide(q) ELSE CookieWriteFailed(q)
       IN /\ resp' = out
          /\ reqs' = [reqs EXCEPT ![r] = Idle]
          /\ usage' = IF ok THEN Put(usage, q.userId, q.rec) ELSE usage
          /\ stamp' = IF ok THEN StampOf(q) ELSE stamp
          /\ rejected' = IF out.status = 402 THEN rejected + 1 ELSE rejected
    /\ UNCHANGED <<deployed, gens, sessions, adminKey, now, planStore, pending, wh,
                   entitled, once, started>>

\* a usage record expires 40 days after its last write (the ex option): by then
\* the calendar month of the record is over
CookieExpire(k) ==
    /\ deployed = "cookie"
    /\ k \in DOMAIN usage
    /\ usage[k].month # monthKey(now)
    /\ usage' = [x \in DOMAIN usage \ {k} |-> usage[x]]
    /\ resp' = Idle
    /\ UNCHANGED <<deployed, gens, sessions, stamp, adminKey, now, planStore, reqs, pending, wh,
                   entitled, once, started, rejected>>

\* --------------------- the in-memory middleware keyed by IP (server.js)
SERVER_CAPS == [free |-> 15, starter |-> 150, pro |-> 600, office |-> 2000]

IP2 == <<"ip2">>
\* values of the x-forwarded-for header
ForwardedHeaders == {NoHdr, Hdr(IP2)}

\* getPlan(req) of server.js: the x-plan header lower-cased (not trimmed)
ServerGetPlan(ph) ==
    LET p == ToLower(IF ph.set /\ ph.val # <<>> THEN ph.val ELSE <<"free">>)
    IN IF Len(p) = 1 /\ p[1] \in DOMAIN SERVER_CAPS THEN p[1] ELSE "free"

\* new Date().getMonth(): the month number 0..11, without the year
getMonth(t) == <<t % 12>>

\* x-forwarded-for || req.socket.remoteAddress || req.ip || "unknown"
ServerIp(xff, addr) ==
    IF OrEmpty(xff) # <<>> THEN xff.val
    ELSE IF OrEmpty(addr) # <<>> THEN addr.val ELSE UNKNOWN

\* the record the middleware works on: the stored one if it is of this month
ServerRec(ip, month, plan) ==
    IF ip \in DOMAIN usage /\ usage[ip].month = month
    THEN usage[ip] ELSE [used |-> 0, plan |-> plan, month |-> month]

\* The whole middleware (it awaits nothing): block at the cap before counting,
\* else count, store, set the headers and call next().
ServerGate(xff, addr, ph, budget) ==
    /\ deployed = "memory"
    /\ started < budget
    /\ started' = started + 1
    /\ LET ip == ServerIp(xff, addr)
           plan == ServerGetPlan(ph)
           month == getMonth(now)
           rec == ServerRec(ip, month, plan)
           q == [Idle EXCEPT !.pc = "done", !.gate = "memory", !.userId = ip,
                             !.plan = plan, !.limit = SERVER_CAPS[plan],
                             !.month = month, !.at = now, !.xPlan = plan]
       IN IF rec.used >= SERVER_CAPS[plan]
          THEN /\ resp' = [q EXCEPT !.status = 402, !.xRemaining = Num(0),
                                    !.used = rec.used]
               /\ rejected' = rejected + 1
               /\ UNCHANGED <<usage, stamp>>
          ELSE /\ usage' = Put(usage, ip, [rec EXCEPT !.plan = plan, !.used = @ + 1])
               /\ stamp' = StampOf(q)
               /\ resp' = [q EXCEPT !.next = TRUE, !.used = rec.used + 1,
                               !.xRemaining =
                                   Num(Max(0, SERVER_CAPS[plan] - (rec.used + 1)))]
               /\ rejected' = rejected
    /\ UNCHANGED <<deployed, gens, sessions, adminKey, now, planStore, reqs, pending, wh,
                   entitled, once>>

\* ------------------------------------- the /generate handler (part_000)
\* responses the gate itself sent for the request
GateResponses(q) == IF q.status # 0 THEN 1 ELSE 0

\* next() runs the generation handler, which answers the request once on each
\* of its paths (400 on missing features, the result, or 500 from its catch)
HandlerResponses(q) == IF q.next THEN 1 ELSE 0

\* values of req.body.features: absent (the "" default), text, or not a string
Features ==
    {[kind |-> "absent", val |-> <<>>], [kind |-> "text", val |-> <<>>],
     [kind |-> "text", val |-> <<" ">>], [kind |-> "text", val |-> <<" ", "pool">>],
     [kind |-> "number", val |-> <<>>]}

\* a handler run takes the lowest free slot
Generates(g) ==
    /\ gens[g].pc = "idle"
    /\ \A x \in Slots : x < g => gens[x].pc # "idle"

\* The synchronous head of the /generate handler, entered by the next() of the
\* gate's last step: features.trim() throws on a value that is not a string
\* (the catch answers 500), blank features are answered 400, otherwise the
\* handler awaits the model.  No storage call on any path.
HandlerEnter(g, features) ==
    /\ resp.pc = "done" /\ resp.next
    /\ Generates(g)
    /\ IF features.kind = "number"
       THEN /\ resp' = [resp EXCEPT !.pc = "handled", !.status = 500]
            /\ gens' = gens
       ELSE IF Trim(features.val) = <<>>
       THEN /\ resp' = [resp EXCEPT !.pc = "handled", !.status = 400]
            /\ gens' = gens
       ELSE /\ gens' = [gens EXCEPT ![g] = [resp EXCEPT !.pc = "openai"]]
            /\ resp' = Idle
    /\ UNCHANGED <<deployed, sessions, stamp, adminKey, now, planStore, usage, reqs,
                   pending, wh, entitled, once, started, rejected>>

\* a catch that gives the request's unit back: it writes used - 1 before the 500
HandlerFinishRefunds(g, ok) ==
    /\ gens[g].pc = "openai"
    /\ resp' = [gens[g] EXCEPT !.pc = "handled", !.status = IF ok THEN 200 ELSE 500]
    /\ gens' = [gens EXCEPT ![g] = Idle]
    /\ usage' = IF ok \/ gens[g].used = 0 THEN usage
                ELSE Put(usage, UsageKey(gens[g].userId, gens[g].month),
                         [used |-> gens[g].used - 1, plan |-> gens[g].plan,
                          month |-> gens[g].month])
    /\ UNCHANGED <<deployed, sessions, stamp, adminKey, now, planStore, reqs,
                   pending, wh, entitled, once, started, rejected>>

\* await openai.chat.completions.create(...) settles: res.json(...) (a reply
\* that does not parse still gives the default listing), or the catch's 500
HandlerFinish(g, ok) ==
    /\ gens[g].pc = "openai"
    /\ resp' = [gens[g] EXCEPT !.pc = "handled", !.status = IF ok THEN 200 ELSE 500]
    /\ gens' = [gens EXCEPT ![g] = Idle]
    /\ UNCHANGED <<deployed, sessions, stamp, adminKey, now, planStore, usage, reqs,
                   pending, wh, entitled, once, started, rejected>>

\* ------------------------------------------ the Stripe webhook (part_000)
\* the price create-checkout-session puts on the session of a tier
PriceOf(tier) == IF tier = "growth" THEN GROWTH_PRICE ELSE STARTER_PRICE

\* values of req.body.plan and req.body.userId of /create-checkout-session
CheckoutPlans == {NoHdr, Hdr(<<"GROWTH">>)}
CheckoutUsers == {Hdr(U1)}

\* normalized = (plan || "starter").toLowerCase()
Normalized(plan) ==
    ToLower(IF plan.set /\ plan.val # <<>> THEN plan.val ELSE <<"starter">>)

\* the tier whose price the session is created with
CheckoutTier(plan) == IF Normalized(plan) = <<"growth">> THEN "growth" ELSE "starter"

\* the session stripe.checkout.sessions.create returns: its price and
\* metadata.userId (userId || "unknown")
SessionOf(plan, user) ==
    [userId |-> IF OrEmpty(user) # <<>> THEN user.val ELSE UNKNOWN,
     tier |-> CheckoutTier(plan), price |-> PriceOf(CheckoutTier(plan))]

\* a checkout that grants the plan when the session is created, before payment
CreateCheckoutGrants(plan, user, ok) ==
    /\ deployed = "guard"
    /\ sessions' = IF ok THEN sessions \cup {SessionOf(plan, user)} ELSE sessions
    /\ planStore' = IF ok THEN Put(planStore, SessionOf(plan, user).userId,
                                   SessionOf(plan, user).tier)
                   ELSE planStore
    /\ resp' = Idle
    /\ UNCHANGED <<deployed, gens, stamp, adminKey, now, usage, reqs, pending, wh,
                   entitled, once, started, rejected>>

\* POST /create-checkout-session: the Stripe session is created and its url
\* returned, or Stripe fails and 500 is returned; no Redis call
CreateCheckout(plan, user, ok) ==
    /\ deployed = "guard"
    /\ sessions' = IF ok THEN sessions \cup {SessionOf(plan, user)} ELSE sessions
    /\ resp' = Idle
    /\ UNCHANGED <<deployed, gens, stamp, adminKey, now, planStore, usage, reqs, pending,
                   wh, entitled, once, started, rejected>>

\* Stripe sends checkout.session.completed only for a session that was created
Purchased(e) ==
    e.type = "checkout.session.completed"
        => \E x \in sessions : x.userId = e.userId /\ x.tier = e.tier

\* checkout.session.completed for user u buying tier t; Stripe delivers the
\* session with or without its line_items expanded
Completed(u, t, expanded) ==
    [type |-> "checkout.session.completed", userId |-> u, customer |-> CustomerOf[u],
     priceId |-> IF expanded THEN Hdr(PriceOf(t)) ELSE NoHdr, tier |-> t]

\* customer.subscription.deleted for the subscription of user u (the event
\* carries the customer; userId is the history of who subscribed)
Deleted(u) ==
    [type |-> "customer.subscription.deleted", userId |-> u, customer |-> CustomerOf[u],
     priceId |-> NoHdr, tier |-> "free"]

\* an event type the handler does not act on
Other == [type |-> "invoice.paid", userId |-> U1, customer |-> CUS1,
          priceId |-> NoHdr, tier |-> "free"]

NoEvent == [type |-> "none", userId |-> <<>>, customer |-> <<>>,
            priceId |-> NoHdr, tier |-> "free"]

WhUsers == {U1}

Events == {Completed(u, t, x) : u \in WhUsers, t \in {"starter", "growth"},
                                x \in BOOLEAN}
          \cup {Deleted(u) : u \in WhUsers} \cup {Other}

\* the stripe-signature header: absent, or the signature of some payload
NoSig == [set |-> FALSE, over |-> NoEvent]
SigOf(e) == [set |-> TRUE, over |-> e]

\* stripe.webhooks.constructEvent(req.rawBody, sig, secret) does not throw
Verified(raw, sig) == sig.set /\ sig.over = raw

\* plan = "free"; if (priceId === STARTER_PRICE) ...; if (priceId === GROWTH_PRICE) ...
PlanOfPrice(priceId) ==
    IF priceId = GROWTH_PRICE THEN "growth"
    ELSE IF priceId = STARTER_PRICE THEN "starter" ELSE "free"

\* the redis.set calls the handler issues for a verified event
WebhookWrites(e) ==
    (IF e.type = "checkout.session.completed"
     THEN {[key |-> e.userId, plan |-> PlanOfPrice(OrEmpty(e.priceId))]} ELSE {})
    \cup
    (IF e.type = "customer.subscription.deleted"
     THEN {[key |-> e.customer, plan |-> "free"]} ELSE {})

\* history: what the verified event entitles its user to
Entitle(e) ==
    IF e.type \in {"checkout.session.completed", "customer.subscription.deleted"}
    THEN Put(entitled, e.userId, e.tier) ELSE entitled

NoOnce == [n |-> 0, event |-> NoEvent, store |-> EmptyMap, twice |-> FALSE,
           prev |-> EmptyMap]

\* a handler that acts on the payload whatever constructEvent said
IssuedUnverified(raw, verified) == WebhookWrites(raw)

\* the redis.set calls of one delivery: none when constructEvent threw
Issued(raw, verified) == IF verified THEN WebhookWrites(raw) ELSE {}

\* res.status(400).send(...) on a signature error, else res.json({received:true})
WebhookStatus(verified) == IF verified THEN 200 ELSE 400

\* POST /stripe/webhook: 400 on a signature error, else the writes are issued
\* (not awaited) and 200 {received:true} is sent.  Stripe sends the deletion
\* of a subscription only for a user who has one.
Webhook(raw, sig) ==
    /\ deployed = "guard"
    /\ wh.n < MaxEvents
    /\ (Verified(raw, sig) /\ raw.type = "customer.subscription.deleted")
           => EntitledTo(raw.userId) \in {"starter", "growth"}
    /\ pending' = pending \cup
           {[key |-> w.key, plan |-> w.plan, n |-> wh.n + 1] :
                w \in Issued(raw, Verified(raw, sig))}
    /\ entitled' = IF Verified(raw, sig) THEN Entitle(raw) ELSE entitled
    /\ wh' = [wh EXCEPT !.n = @ + 1,
                        !.event = IF Verified(raw, sig) THEN raw ELSE NoEvent,
                        !.verified = Verified(raw, sig),
                        !.status = WebhookStatus(Verified(raw, sig))]
    /\ resp' = Idle
    /\ UNCHANGED <<deployed, gens, sessions, stamp, adminKey, now, planStore, usage, reqs, once,
                   started, rejected>>

\* a write that takes a repeated activation for a toggle
ApplyPlanWriteToggle(store, w) ==
    IF w.key \in DOMAIN store /\ store[w.key] = w.plan /\ w.plan # "free"
    THEN Put(store, w.key, "free") ELSE Put(store, w.key, w.plan)

\* redis.set(key, plan) on the plan store
ApplyPlanWrite(store, w) == Put(store, w.key, w.plan)

\* history: the plan store as the latest event's write left it, and whether
\* that event is a second delivery, in a row, of an event already applied
OnceAfter(w, store) ==
    IF w.n # wh.n THEN NoOnce
    ELSE [n |-> w.n, event |-> wh.event, store |-> store,
          twice |-> (once.n > 0 /\ once.n + 1 = w.n /\ once.event = wh.event),
          prev |-> once.store]

\* a plan write that also clears the usage ledger
PlanWriteResets(w, ok) ==
    /\ w \in pending
    /\ pending' = pending \ {w}
    /\ planStore' = IF ok THEN ApplyPlanWrite(planStore, w) ELSE planStore
    /\ usage' = IF ok THEN EmptyMap ELSE usage
    /\ once' = IF ok THEN OnceAfter(w, ApplyPlanWrite(planStore, w)) ELSE once
    /\ wh' = [wh EXCEPT !.lost = @ \/ ~ok]
    /\ resp' = Idle
    /\ UNCHANGED <<deployed, gens, sessions, stamp, adminKey, now, reqs, entitled,
                   started, rejected>>

\* A plan write the handler issued reaches Redis, or fails (its promise is
\* rejected and nobody handles it).
PlanWrite(w, ok) ==
    /\ w \in pending
    /\ pending' = pending \ {w}
    /\ planStore' = IF ok THEN ApplyPlanWrite(planStore, w) ELSE planStore
    /\ once' = IF ok THEN OnceAfter(w, ApplyPlanWrite(planStore, w)) ELSE once
    /\ wh' = [wh EXCEPT !.lost = @ \/ ~ok]
    /\ resp' = Idle
    /\ UNCHANGED <<deployed, gens, sessions, stamp, adminKey, now, usage, reqs, entitled,
                   started, rejected>>

\* The storage call an invocation awaits never settles: the invocation stays
\* suspended at its await.  Neither gate arms a timer, and the Redis client is
\* built without a timeout, so nothing resumes it.
Stall(r) ==
    /\ reqs[r].pc \in {"getPlan", "getUsage", "set", "get"}
    /\ reqs' = [reqs EXCEPT ![r] = [@ EXCEPT !.pc = "stalled"]]
    /\ resp' = Idle
    /\ UNCHANGED <<deployed, gens, sessions, stamp, adminKey, now, planStore, usage,
                   pending, wh, entitled, once, started, rejected>>

\* ------------------------------------------------------------------- clock
Tick(t) ==
    /\ t \in Instants
    /\ t > now
    /\ now' = t
    /\ resp' = Idle
    /\ UNCHANGED <<deployed, gens, sessions, stamp, adminKey, planStore, usage, reqs, pending, wh,
                   entitled, once, started, rejected>>

\* a month passes, up to a horizon
Advance(horizon) ==
    /\ now < horizon
    /\ now' = now + 1
    /\ resp' = Idle
    /\ UNCHANGED <<deployed, gens, sessions, stamp, adminKey, planStore, usage, reqs,
                   pending, wh, entitled, once, started, rejected>>

\* ------------------------------------------------------------ the system
\* What Redis may hold when the server starts: nothing, or one usage record of
\* the current month left by earlier requests, one short of its cap or at it,
\* with (for usageGuard) the plan entry the webhook wrote for that plan.
NoPreload == [on |-> FALSE, plan |-> "free", used |-> 0]

Preload(p, k) == [on |-> TRUE, plan |-> p, used |-> k]

Preloads ==
    {NoPreload, Preload("free", CAPS.free - 1), Preload("free", CAPS.free),
     Preload("starter", CAPS.starter), Preload("growth", CAPS.growth)}

PreUsage(variant, pre) ==
    IF ~pre.on THEN EmptyMap
    ELSE LET rec == [used |-> pre.used, plan |-> pre.plan, month |-> monthKey(Epoch)]
         IN IF variant = "guard" THEN UsageKey(U1, monthKey(Epoch)) :> rec
            ELSE V1 :> rec

PrePlans(variant, pre) ==
    IF variant = "guard" /\ pre.on /\ pre.plan # "free"
    THEN U1 :> pre.plan ELSE EmptyMap

InitWith(variants, keys, pres) ==
    /\ deployed \in variants
    /\ adminKey \in keys
    /\ now = Epoch
    /\ \E pre \in pres :
          /\ usage = PreUsage(deployed, pre)
          /\ planStore = PrePlans(deployed, pre)
          /\ entitled = PrePlans(deployed, pre)
    /\ reqs = [r \in Slots |-> Idle]
    /\ resp = Idle
    /\ pending = {}
    /\ wh = [n |-> 0, event |-> NoEvent, verified |-> FALSE, status |-> 0,
             lost |-> FALSE]
    /\ once = NoOnce
    /\ started = 0
    /\ rejected = 0
    /\ sessions = {}
    /\ gens = [g \in Slots |-> Idle]
    /\ stamp = IF usage = EmptyMap THEN NoStamp
               ELSE [set |-> TRUE, at |-> Epoch, key |-> monthKey(Epoch)]

\* The Request Gate of either server, its storage calls succeeding or failing.
Init == InitWith({"guard", "cookie"}, AdminKeys, Preloads)

Next ==
    \/ \E r \in Slots, ah \in AdminHeaders, uh \in UserHeaders, ip \in Ips :
          GuardStart(r, ah, uh, ip, MaxReq)
    \/ \E r \in Slots, ok \in BOOLEAN : GuardGetPlan(r, ok)
    \/ \E r \in Slots, ok \in BOOLEAN : GuardGetUsage(r, ok)
    \/ \E r \in Slots, ok \in BOOLEAN : GuardSet(r, ok)
    \/ \E r \in Slots, ah \in AdminHeaders, ph \in PlanHeaders, v \in VisitorIds :
          \E c \in {NoHdr, Hdr(v)} : CookieStart(r, ah, c, ph, v, MaxReq)
    \/ \E r \in Slots, ok \in BOOLEAN : CookieGet(r, ok)
    \/ \E r \in Slots, ok \in BOOLEAN : CookieSet(r, ok)
    \/ \E k \in VisitorIds : CookieExpire(k)
    \/ \E t \in Instants : Tick(t)

Spec == Init /\ [][Next]_vars

\* the signatures a delivery of payload raw may carry: its own, that of
\* another payload, or none
SigsFor(raw) == {SigOf(raw), SigOf(Other), NoSig}

\* The server of part_000: the webhook and its plan writes (which may fail)
\* beside usageGuard serving the subscribing user.
InitHook ==
    InitWith({"guard"}, {NoHdr},
             {NoPreload, Preload("free", CAPS.free), Preload("starter", CAPS.starter)})

NextHook ==
    \/ \E r \in Slots : GuardStart(r, NoHdr, Hdr(U1), Hdr(IP1), HookReq)
    \/ \E r \in Slots : GuardGetPlan(r, TRUE)
    \/ \E r \in Slots : GuardGetUsage(r, TRUE)
    \/ \E r \in Slots : GuardSet(r, TRUE)
    \/ \E raw \in Events : \E sig \in SigsFor(raw) : Webhook(raw, sig)
    \/ \E w \in pending, ok \in BOOLEAN : PlanWrite(w, ok)

SpecHook == InitHook /\ [][NextHook]_vars

\* usageGuard alone: one identity on the free plan, one billing period, an
\* empty ledger, the storage reachable, RaceReq requests.
InitRace == InitWith({"guard"}, {NoHdr}, {NoPreload})

NextRace ==
    \/ \E r \in Slots : GuardStart(r, NoHdr, Hdr(U1), Hdr(IP1), RaceReq)
    \/ \E r \in Slots : GuardGetPlan(r, TRUE)
    \/ \E r \in Slots : GuardGetUsage(r, TRUE)
    \/ \E r \in Slots : GuardSet(r, TRUE)

SpecRace == InitRace /\ [][NextRace]_vars

\* Either gate serving one identity, the storage reachable, no admin secret:
\* requests that differ in nothing but the x-plan header they carry (usageGuard
\* reads no such header, so its requests are all alike).
InitPlan ==
    InitWith({"guard", "cookie"}, {NoHdr},
             {NoPreload, Preload("free", CAPS.free), Preload("starter", CAPS.starter)})

NextPlan ==
    \/ \E r \in Slots : GuardStart(r, NoHdr, Hdr(U1), Hdr(IP1), PlanReq)
    \/ \E r \in Slots : GuardGetPlan(r, TRUE)
    \/ \E r \in Slots : GuardGetUsage(r, TRUE)
    \/ \E r \in Slots : GuardSet(r, TRUE)
    \/ \E r \in Slots, ph \in PlanHeaders : CookieStart(r, NoHdr, Hdr(V1), ph, V1, PlanReq)
    \/ \E r \in Slots : CookieGet(r, TRUE)
    \/ \E r \in Slots : CookieSet(r, TRUE)

SpecPlan == InitPlan /\ [][NextPlan]_vars

\* Either gate with storage calls that succeed, throw or never settle.  The
\* event loop runs the continuation of every await whose promise has settled
\* (weak fairness of Settles); nothing obliges a client to send a request.
InitLive == InitWith({"guard", "cookie"}, {NoHdr}, {NoPreload, Preload("free", CAPS.free)})

Settles ==
    \E r \in Slots, ok \in BOOLEAN :
        \/ GuardGetPlan(r, ok)
        \/ GuardGetUsage(r, ok)
        \/ GuardSet(r, ok)
        \/ CookieGet(r, ok)
        \/ CookieSet(r, ok)

NextLive ==
    \/ \E r \in Slots : GuardStart(r, NoHdr, Hdr(U1), Hdr(IP1), LiveReq)
    \/ \E r \in Slots : CookieStart(r, NoHdr, Hdr(V1), NoHdr, V1, LiveReq)
    \/ Settles
    \/ \E r \in Slots : Stall(r)

SpecLive == InitLive /\ [][NextLive]_vars /\ WF_vars(Settles)

\* Each of the three gates serving one identity over more than a year of
\* months, the storage reachable.
InitKey == InitWith({"guard", "cookie", "memory"}, {NoHdr}, {NoPreload})

NextKey ==
    \/ \E r \in Slots : GuardStart(r, NoHdr, Hdr(U1), Hdr(IP1), KeyReq)
    \/ \E r \in Slots : GuardGetPlan(r, TRUE)
    \/ \E r \in Slots : GuardGetUsage(r, TRUE)
    \/ \E r \in Slots : GuardSet(r, TRUE)
    \/ \E r \in Slots : CookieStart(r, NoHdr, Hdr(V1), NoHdr, V1, KeyReq)
    \/ \E r \in Slots : CookieGet(r, TRUE)
    \/ \E r \in Slots : CookieSet(r, TRUE)
    \/ \E xff \in ForwardedHeaders, ph \in PlanHeaders :
          ServerGate(xff, Hdr(IP1), ph, KeyReq)
    \/ Advance(Epoch + KeySpan)

SpecKey == InitKey /\ [][NextKey]_vars

\* The server of part_000 with its three endpoints: checkout-session creation,
\* the webhook receiving verified events (Stripe sends a completed checkout
\* only for a created session) with its plan writes, and usageGuard serving
\* the user.
InitPay == InitWith({"guard"}, {NoHdr}, {NoPreload})

PayEvents == {Completed(U1, "growth", TRUE), Completed(U1, "starter", FALSE), Deleted(U1)}

NextPay ==
    \/ \E r \in Slots : GuardStart(r, NoHdr, Hdr(U1), Hdr(IP1), PayReq)
    \/ \E r \in Slots : GuardGetPlan(r, TRUE)
    \/ \E r \in Slots : GuardGetUsage(r, TRUE)
    \/ \E r \in Slots : GuardSet(r, TRUE)
    \/ \E plan \in CheckoutPlans, user \in CheckoutUsers, ok \in BOOLEAN :
          CreateCheckout(plan, user, ok)
    \/ \E raw \in PayEvents : Purchased(raw) /\ Webhook(raw, SigOf(raw))
    \/ \E w \in pending, ok \in BOOLEAN : PlanWrite(w, ok)

SpecPay == InitPay /\ [][NextPay]_vars

\* usageGuard and the /generate handler behind it: one identity, the storage
\* reachable, the handler rejecting its input, failing or answering.
InitGen == InitWith({"guard"}, {NoHdr}, {NoPreload, Preload("free", CAPS.free - 1)})

NextGen ==
    \/ \E r \in Slots : GuardStart(r, NoHdr, Hdr(U1), Hdr(IP1), GenReq)
    \/ \E r \in Slots : GuardGetPlan(r, TRUE)
    \/ \E r \in Slots : GuardGetUsage(r, TRUE)
    \/ \E r \in Slots : GuardSet(r, TRUE)
    \/ \E g \in Slots, features \in Features : HandlerEnter(g, features)
    \/ \E g \in Slots, ok \in BOOLEAN : HandlerFinish(g, ok)

SpecGen == InitGen /\ [][NextGen]_vars

\* x-user-id headers: absent, or up to MaxLen characters
IdChars == {" ", "u1", "x"}

IdHeaders ==
    {NoHdr} \cup {Hdr(v) : v \in UNION {[1 .. n -> IdChars] : n \in 0 .. MaxLen}}

\* req.ip: undefined, "", or an address
IdIps == {NoHdr, Hdr(<<>>), Hdr(IP1), Hdr(IP2)}

\* The identity resolution of usageGuard applied to every request shape.
InitId == InitWith({"guard"}, {NoHdr}, {NoPreload})

NextId == \E uh \in IdHeaders, ip \in IdIps : ResolveIdentity(uh, ip)

SpecId == InitId /\ [][NextId]_vars

\* process.env.ADMIN_KEY when no secret is configured: undefined or ""
NoSecret == {NoHdr, Hdr(<<>>)}

\* Either gate started without an admin secret, the requests carrying any
\* x-admin-key header; the storage reachable.
InitAdmin ==
    InitWith({"guard", "cookie"}, NoSecret, {NoPreload, Preload("free", CAPS.free)})

NextAdmin ==
    \/ \E r \in Slots, ah \in AdminHeaders, ip \in Ips :
          GuardStart(r, ah, Hdr(U1), ip, AdminReq)
    \/ \E r \in Slots : GuardGetPlan(r, TRUE)
    \/ \E r \in Slots : GuardGetUsage(r, TRUE)
    \/ \E r \in Slots : GuardSet(r, TRUE)
    \/ \E r \in Slots, ah \in AdminHeaders, v \in VisitorIds :
          \E c \in {NoHdr, Hdr(v)} : CookieStart(r, ah, c, NoHdr, v, AdminReq)
    \/ \E r \in Slots : CookieGet(r, TRUE)
    \/ \E r \in Slots : CookieSet(r, TRUE)

SpecAdmin == InitAdmin /\ [][NextAdmin]_vars

\* ================================================================= claims
InFlight == Cardinality({r \in Slots : ~Free(r)})

\* gate invocations that finished without a 402: passed on by next()
Admitted == started - InFlight - rejected

Paid == {"starter", "growth"}

\* a <<year, month>> key that lies before another
MonthBefore(a, b) == a[1] < b[1] \/ (a[1] = b[1] /\ a[2] < b[2])

\* the stored record of the identity and billing period of invocation q
HasRec(store, q) ==
    IF q.gate = "guard" THEN UsageKey(q.userId, q.month) \in DOMAIN store
    ELSE q.userId \in DOMAIN store /\ store[q.userId].month = q.month

RecOf(store, q) ==
    IF q.gate = "guard" THEN store[UsageKey(q.userId, q.month)] ELSE store[q.userId]

UsedOf(store, q) == IF HasRec(store, q) THEN RecOf(store, q).used ELSE 0

\* the identity of q has a record of an earlier month and none of q's month
FirstOfMonth(store, q) ==
    /\ ~HasRec(store, q)
    /\ IF q.gate = "guard"
       THEN \E t \in Instants : /\ MonthBefore(monthKey(t), q.month)
                                /\ UsageKey(q.userId, monthKey(t)) \in DOMAIN store
       ELSE /\ q.userId \in DOMAIN store
            /\ MonthBefore(store[q.userId].month, q.month)

\* the last step finished a gate invocation that went through the quota check
Metered(q) == q.pc = "done" /\ q.xPlan # "boss"

\* ---- C1
\* C1: when the RaceReq > CAPS.free requests of one identity, issued against an
\* empty ledger in one billing period with the storage reachable, have all been
\* decided, exactly CAPS.free were admitted and the others answered 402.
C1_ExactlyLimitAdmitted ==
    (CAPS.free < RaceReq /\ started = RaceReq /\ InFlight = 0)
        => (Admitted = CAPS.free /\ rejected = RaceReq - CAPS.free)

\* ---- C2
\* C2: a request that finds its identity's record of the period, written under
\* the same plan, below the cap is admitted, and one that finds it at the cap
\* (the (cap+1)-th) is answered 402 with used = limit = cap(plan) in the body;
\* storage reachable, no other request in flight.
C2_CapPlusOneRejected ==
    [][(/\ Metered(resp') /\ ~resp'.failed /\ InFlight' = 0
        /\ HasRec(usage, resp') => RecOf(usage, resp').plan = resp'.plan)
          => IF UsedOf(usage, resp') < CAPS[resp'.plan]
             THEN resp'.next
             ELSE UsedOf(usage, resp') = CAPS[resp'.plan]
                     => /\ resp'.status = 402
                        /\ resp'.bodyUsed = CAPS[resp'.plan]
                        /\ resp'.bodyLimit = CAPS[resp'.plan]]_vars

C5_BadSignatureRejected ==
    [][(wh'.n # wh.n /\ ~wh'.verified)
          => /\ wh'.status = 400
             /\ planStore' = planStore /\ usage' = usage /\ pending' = pending]_vars

\* a delivery was refused while the plan store holds an entry
C5_Witness == wh.n > 0 /\ ~wh.verified /\ wh.status = 400 /\ planStore # EmptyMap

\* ---- C6
\* C6: when the write of a verified checkout.session.completed event is applied
\* for the second delivery in a row of that event (no other plan write in
\* between), the plan store is again as the first application left it.
C6_ActivationIdempotent ==
    (once.twice /\ once.event.type = "checkout.session.completed")
        => once.store = once.prev

\* the growth activation of u1 has been applied twice in a row
C6_Witness ==
    /\ once.twice /\ once.event = Completed(U1, "growth", TRUE)
    /\ planStore[U1] = "growth"

\* ---- C7
\* C7: a step that answers a request 402 leaves every usage record as it was.
C7_RejectLeavesLedger ==
    [][(resp'.pc = "done" /\ resp'.status = 402) => usage' = usage]_vars

\* ---- C8
\* C8: a gate invocation one of whose storage calls failed is passed on by
\* next(); it is answered neither 402 nor 5xx.
C8_FailOpen == (resp.pc = "done" /\ resp.failed) => (resp.next /\ resp.status = 0)

\* usageGuard passed a request on after its usage read failed, though the
\* record of its user stands at the cap
C8_Witness ==
    /\ resp.pc = "done" /\ resp.failed /\ resp.next /\ resp.gate = "guard"
    /\ resp.limit = CAPS.free
    /\ HasRec(usage, resp) /\ UsedOf(usage, resp) >= resp.limit

\* ---- C9
\* the plan writes of all verified events so far have reached the plan store
Settled == pending = {} /\ ~wh.lost

\* C9: once the writes of a verified checkout.session.completed event for user
\* u and purchased tier t have settled, the plan store maps u to t, and a gate
\* invocation for u started since then reads limit cap(t).
C9_ActivationSetsPlan ==
    [][/\ \A u \in DOMAIN entitled' :
             (Settled' /\ entitled'[u] \in Paid)
                => (u \in DOMAIN planStore' /\ planStore'[u] = entitled'[u])
       /\ \A r \in Slots :
             (/\ reqs[r].pc = "getPlan" /\ reqs'[r].pc = "getUsage" /\ Settled
              /\ reqs[r].entitledAt \in Paid
              /\ reqs[r].entitledAt = EntitledTo(reqs[r].userId))
                => reqs'[r].limit = CAPS[reqs[r].entitledAt]]_vars

\* ---- C10
\* C10: once the write of a verified customer.subscription.deleted event for
\* the subscription of user u has settled, the plan entry the gate reads for u
\* is free, and a gate invocation for u started since then reads the free cap.
C10_CancellationSetsFree ==
    [][/\ \A u \in DOMAIN entitled' :
             (Settled' /\ entitled'[u] = "free")
                => (u \in DOMAIN planStore' /\ planStore'[u] = "free")
       /\ \A r \in Slots :
             (/\ reqs[r].pc = "getPlan" /\ reqs'[r].pc = "getUsage" /\ Settled
              /\ reqs[r].entitledAt = "free"
              /\ EntitledTo(reqs[r].userId) = "free")
                => reqs'[r].limit = CAPS.free]_vars

\* ---- C11
\* the invocation has resolved its plan and limit
Resolved(q) == q.pc \in {"get", "getUsage", "set"}

\* the decision of an invocation that is about to write its count
Decision(q) == IF q.gate = "cookie" THEN CookieDecide(q).status ELSE 0

\* C11: two non-admin invocations of one gate for the same identity, both run
\* from the same durable state (the plan store is the same throughout, neither
\* has written yet), have resolved the same plan and the same limit, and when
\* both read the same count they take the same admit/reject decision.
C11_PlanFromStoreOnly ==
    \A r1, r2 \in Slots :
        (/\ Resolved(reqs[r1]) /\ Resolved(reqs[r2])
         /\ reqs[r1].gate = reqs[r2].gate /\ reqs[r1].userId = reqs[r2].userId)
            => /\ reqs[r1].plan = reqs[r2].plan
               /\ reqs[r1].limit = reqs[r2].limit
               /\ (/\ reqs[r1].pc = "set" /\ reqs[r2].pc = "set"
                   /\ reqs[r1].gate = "cookie"
                   /\ reqs[r1].rec.used = reqs[r2].rec.used)
                      => Decision(reqs[r1]) = Decision(reqs[r2])

\* ---- C12
\* C12: every gate invocation that has finished, whether it handed the request
\* on or answered 402, has set both X-Plan and X-Remaining on the response.
C12_MetadataAlwaysSet ==
    resp.pc = "done" => (resp.xPlan # "unset" /\ resp.xRemaining # Unset)

\* ---- C13
\* C13: every gate invocation that has started eventually finishes, also when
\* a storage call it awaits never returns.
C13_GateResolves == \A r \in Slots : (~Free(r)) ~> Free(r)

\* ---- C14
\* a billing key that does not lie after another (year-month pairs, or the
\* bare month numbers of server.js)
KeyLeq(a, b) == IF Len(a) = 1 THEN a[1] <= b[1] ELSE ~MonthBefore(b, a)

\* the invocations, finished last or in flight, that have read the clock
Clocked(last, flying) == {q \in {last} \cup {flying[r] : r \in Slots} : q.at # 0}

\* C14: the billing key of the quota record written last before a step differs
\* from the key of every invocation that, after the step, has read the clock
\* in another calendar month (an instant is a calendar month), and is not after
\* the key of one that read the clock later: a record is current only in the
\* month it was written for.
C14_PeriodKeyDistinct ==
    [][\A q \in Clocked(resp', reqs') :
          stamp.set => /\ (stamp.at # q.at => stamp.key # q.month)
                       /\ (stamp.at <= q.at => KeyLeq(stamp.key, q.month))]_vars

\* ---- C15
\* C15: every stored quota record has 0 <= used <= cap(plan), plan being the
\* plan snapshot in the record.
C15_UsedWithinCap ==
    \A k \in DOMAIN usage :
        usage[k].used >= 0 /\ usage[k].used <= CAPS[usage[k].plan]

\* ---- C16
\* C16: when usageGuard's plan read finds no entry for the identity, or fails,
\* the invocation goes on to the quota check with plan free and the free cap.
C16_PlanDefaultsToFree ==
    [][\A r \in Slots :
          (/\ reqs[r].gate = "guard" /\ reqs[r].pc = "getPlan"
           /\ reqs'[r] # reqs[r]
           /\ \/ reqs[r].userId \notin DOMAIN planStore
              \/ (resp'.pc = "done" /\ resp'.failed))
             => /\ reqs'[r].pc = "getUsage"
                /\ reqs'[r].plan = "free"
                /\ reqs'[r].limit = CAPS.free]_vars

\* ---- C17
\* C17: no invocation still in the gate has been handed to the generation
\* handler; a request the gate answered 402 is not handed on and has exactly
\* one response; a request handed on was not answered by the gate.
C17_RejectedNeverGenerates ==
    /\ \A r \in Slots : ~reqs[r].next /\ reqs[r].status = 0
    /\ resp.status = 402
          => (~resp.next /\ GateResponses(resp) + HandlerResponses(resp) = 1)
    /\ resp.next => GateResponses(resp) = 0

\* usageGuard answered 402 for a user whose record stands at the cap
C17_Witness ==
    /\ resp.pc = "done" /\ resp.gate = "guard" /\ resp.status = 402 /\ ~resp.next
    /\ HasRec(usage, resp) /\ UsedOf(usage, resp) >= resp.limit

\* ---- C18
\* C18: a step that changes the plan store is the settling of one write the
\* webhook handler issued; it is no step of a gate invocation (none moves,
\* none finishes) and no checkout-session creation.
C18_OnlyWebhookWritesPlans ==
    [][planStore' # planStore
          => /\ \E w \in pending :
                   /\ pending' = pending \ {w}
                   /\ w.key \in DOMAIN planStore' /\ planStore'[w.key] = w.plan
             /\ reqs' = reqs /\ resp'.pc # "done"
             /\ started' = started
             /\ sessions' = sessions]_vars

\* a session exists, a webhook write has set a plan, and usageGuard has just
\* admitted a request
C18_Witness ==
    /\ sessions # {} /\ planStore # EmptyMap
    /\ resp.pc = "done" /\ resp.gate = "guard" /\ resp.next

\* ---- C19
\* the plan writes a customer.subscription.deleted event issues
CancelWrites == {w \in pending : \E u \in DOMAIN CustomerOf : w.key = CustomerOf[u]}

\* C19: the delivery of a verified customer.subscription.deleted event, and
\* the settling of the plan write it issued, leave every usage record as it
\* was; the write changes no plan entry but the one it names.
C19_CancellationKeepsUsage ==
    [][/\ (wh'.n # wh.n /\ wh'.event.type = "customer.subscription.deleted")
             => (usage' = usage /\ planStore' = planStore)
       /\ \A w \in CancelWrites :
             w \notin pending'
                => /\ usage' = usage
                   /\ \A k \in DOMAIN planStore :
                         k # w.key => (k \in DOMAIN planStore'
                                        /\ planStore'[k] = planStore[k])]_vars

\* the write of a cancellation has been applied while a usage record exists
C19_Witness ==
    /\ wh.event.type = "customer.subscription.deleted" /\ pending = {}
    /\ CUS1 \in DOMAIN planStore /\ planStore[CUS1] = "free"
    /\ \E k \in DOMAIN usage : usage[k].used > 0

\* ---- C20
\* the identity a usage key belongs to
OwnerOf(gate, k) == IF gate = "guard" THEN k[1] ELSE k

\* C20: a gate step that does not finish an invocation writes no usage record;
\* the step that finishes the invocation of identity A creates or changes no
\* usage record of another identity; and what an invocation takes as its count
\* is read from A's own record of the period: usageGuard rejects exactly when
\* that count has reached the limit, the cookie gate counts that count plus one.
C20_IdentitiesIndependent ==
    [][/\ (reqs' # reqs /\ resp'.pc # "done") => usage' = usage
       /\ resp'.pc = "done"
             => /\ \A k \in DOMAIN usage :
                      OwnerOf(resp'.gate, k) # resp'.userId
                         => (k \in DOMAIN usage' /\ usage'[k] = usage[k])
                /\ \A k \in DOMAIN usage' \ DOMAIN usage :
                      OwnerOf(resp'.gate, k) = resp'.userId
       /\ \A r \in Slots :
             (reqs[r].pc = "getUsage" /\ reqs'[r] # reqs[r] /\ ~resp'.failed)
                => IF UsedOf(usage, reqs[r]) >= reqs[r].limit
                   THEN resp'.status = 402 /\ resp'.userId = reqs[r].userId
                   ELSE reqs'[r].pc = "set"
                        /\ reqs'[r].used = UsedOf(usage, reqs[r]) + 1
       /\ \A r \in Slots :
             (reqs[r].pc = "get" /\ reqs'[r] # reqs[r] /\ ~reqs'[r].failed)
                => reqs'[r].rec.used = UsedOf(usage, reqs[r]) + 1]_vars

\* usageGuard admitted the first request of one identity while the record of
\* another identity stands at its cap
C20_Witness ==
    /\ resp.pc = "done" /\ resp.gate = "guard" /\ resp.next /\ ~resp.failed
    /\ resp.userId = IP1 /\ UsedOf(usage, resp) = 1
    /\ UsageKey(U1, resp.month) \in DOMAIN usage
    /\ usage[UsageKey(U1, resp.month)].used = CAPS.free

\* C21: the quota an admitted request consumed is never given back when the
\* generation handler rejects its input (400) or fails (500): no step of the
\* handler, answering or starting to wait for the model, changes the ledger,
\* so the counter keeps what the gates wrote.
C21_NoRefund ==
    [][(resp'.pc = "handled" \/ gens' # gens) => usage' = usage]_vars

\* an admitted request that wrote its unit and whose handler answered 500
\* after the model failed, the ledger still holding the unit
C21_Witness ==
    /\ resp.pc = "handled" /\ resp.status = 500
    /\ resp.xPlan = "free" /\ resp.used >= 1
    /\ HasRec(usage, resp) /\ UsedOf(usage, resp) >= resp.used
    /\ \E g \in Slots : gens[g].pc = "openai"


\* the header is absent or holds nothing but spaces
Blank(uh) == ~uh.set \/ \A k \in 1 .. Len(uh.val) : uh.val[k] = " "

\* t is s without its leading and trailing spaces
IsTrimOf(t, s) ==
    \E i \in 0 .. Len(s), j \in 0 .. Len(s) :
       /\ i + Len(t) + j = Len(s)
       /\ \A k \in 1 .. i : s[k] = " "
       /\ \A k \in 1 .. j : s[Len(s) - k + 1] = " "
       /\ t = SubSeq(s, i + 1, i + Len(t))
       /\ t # <<>> => t[1] # " " /\ t[Len(t)] # " "

\* C22: usageGuard resolves an identity for every request, by a fixed
\* priority: the x-user-id header without its surrounding spaces when that is
\* not empty, else the network address when there is one, else "unknown".  The
\* identity is never empty and is determined by the request alone.
C22_IdentityPriority ==
    resp.pc = "resolved" =>
       LET uh == resp.req.uh
           ip == resp.req.ip
           id == resp.userId
       IN /\ id # <<>>
          /\ \/ ~Blank(uh) /\ IsTrimOf(id, uh.val)
             \/ Blank(uh) /\ ip.set /\ ip.val # <<>> /\ id = ip.val
             \/ Blank(uh) /\ ~(ip.set /\ ip.val # <<>>) /\ id = UNKNOWN

\* a padded x-user-id wins over the address of the same request
C22_Witness ==
    /\ resp.pc = "resolved"
    /\ resp.req = [uh |-> Hdr(<<" ", "u1", " ">>), ip |-> Hdr(IP1)]
    /\ resp.userId = U1

\* C23: within one billing period the stored used counter of an identity
\* never decreases, however concurrent requests interleave: no step replaces
\* a stored record by one of the same period with a smaller used.
C23_UsedNeverDecreases ==
    [][\A k \in DOMAIN usage :
          (k \in DOMAIN usage' /\ usage'[k].month = usage[k].month)
             => usage'[k].used >= usage[k].used]_vars

\* C24: in the cookie gate a failed read followed by a successful write never
\* lowers the identity's stored used of the period: a storage error on the
\* read must not erase consumption already recorded.
C24_FailedReadKeepsUsed ==
    [][(resp'.gate = "cookie" /\ resp'.pc = "done" /\ resp'.failed /\ usage' # usage)
          => UsedOf(usage', resp') >= UsedOf(usage, resp')]_vars

\* C25: when the webhook has answered a verified event with 200, the plan
\* write of that delivery has already been applied (none of its writes is
\* still outstanding, so a gate invocation starting now reads the plan the
\* event set), and no plan write that failed was acknowledged with 200.
C25_AckAfterWrite ==
    (wh.n > 0 /\ wh.verified /\ wh.status = 200)
        => /\ \A w \in pending : w.n # wh.n
           /\ ~wh.lost

\* C26: when no admin secret is configured (ADMIN_KEY unset or empty) no
\* request is treated as admin, whatever x-admin-key it carries: every request
\* that starts enters the quota path (it goes on to read plan or usage) and
\* no response carries the boss plan or the unlimited signal.
C26_NoAdminWithoutSecret ==
    [][((~adminKey.set \/ adminKey.val = <<>>) /\ started' # started)
          => /\ resp'.xPlan # "boss" /\ resp'.xRemaining # Unlimited
             /\ \E r \in Slots : /\ reqs[r].pc = "idle"
                                 /\ reqs'[r].pc \in {"getPlan", "get"}]_vars

\* with ADMIN_KEY set to "", a request of an identity at its cap was checked
\* against the quota and answered 402
C26_Witness ==
    /\ adminKey = Hdr(<<>>)
    /\ started >= 1
    /\ resp.pc = "done" /\ resp.status = 402 /\ resp.xPlan = "free"
    /\ resp.xRemaining = Num(0)

\* C27: every non-admin request usageGuard decides with the storage reachable
\* reports an X-Remaining that is an integer in 0..limit; on admit it is the
\* limit minus the used value the request has just written, and on reject it
\* is 0 and the body's used is at least the limit.
C27_RemainingInRange ==
    [][(/\ resp'.pc = "done" /\ resp'.gate = "guard"
        /\ resp'.xPlan # "boss" /\ ~resp'.failed)
          => \E n \in 0 .. resp'.limit :
                /\ resp'.xRemaining = Num(n)
                /\ IF resp'.status = 402
                   THEN n = 0 /\ resp'.bodyUsed >= resp'.limit /\ ~resp'.next
                   ELSE /\ resp'.next /\ resp'.status = 0
                        /\ HasRec(usage', resp')
                        /\ UsedOf(usage', resp') = resp'.used
                        /\ n = resp'.limit - UsedOf(usage', resp')]_vars

\* the first request of a free identity was admitted, wrote used 1 and
\* reported the nine units left
C27_Witness ==
    /\ resp.pc = "done" /\ resp.gate = "guard" /\ ~resp.failed /\ resp.next
    /\ resp.xPlan = "free" /\ resp.limit = CAPS.free
    /\ UsedOf(usage, resp) = 1
    /\ resp.xRemaining = Num(CAPS.free - 1)

====
